---- MODULE Spec2Model ----
(***************************************************************************)
(* copilot_super.core: greet(name).                                        *)
(*                                                                         *)
(* Text is a sequence of one-character strings, so that concatenation,     *)
(* length, prefixes and suffixes are computed rather than assumed.  A      *)
(* Python value is a record with its type and, for str, its characters.    *)
(* A call of greet is executed line by line in its own frame; callers      *)
(* (one in Spec, several threads in ConcSpec) issue calls and receive      *)
(* either the returned text or the raised exception.                       *)
(***************************************************************************)
EXTENDS Integers, Sequences, FiniteSets, TLC

VARIABLES
    pc,           \* pc[t]: where caller t's call of greet is
    arg,          \* arg[t]: the value caller t passes (the caller's own reference)
    name,         \* name[t]: the parameter `name` in the frame of t's call
    outcome,      \* outcome[t]: what the call handed back to caller t
    moduleState,  \* mutable module-level state of core.py (the module defines none)
    observed      \* an earlier call's (argument, outcome), kept by the caller

vars == <<pc, arg, name, outcome, moduleState, observed>>

-----------------------------------------------------------------------------
(* Bounds *)

MaxLen == 2
ConcMaxLen == 1
NumThreads == 2

-----------------------------------------------------------------------------
(* Python values *)

Alphabet == {"a", "A", " ", "!", ","}
ConcAlphabet == {"a", " "}

TextsOver(alpha, n) == UNION {[1..k -> alpha] : k \in 0..n}

\* Names the tests use, and names that themselves carry the greeting's
\* prefix and suffix.
World == <<"W", "o", "r", "l", "d">>
Alice == <<"A", "l", "i", "c", "e">>
Samples ==
    { World, Alice,
      <<"H", "e", "l", "l", "o", ",", " ">>,
      <<"H", "e", "l", "l", "o", ",", " ", "!">> }

None == [type |-> "NoneType", chars |-> <<>>]
Str(s) == [type |-> "str", chars |-> s]
Unbound == [type |-> "unbound", chars |-> <<>>]

SeqValues == {None} \cup {Str(s) : s \in TextsOver(Alphabet, MaxLen) \cup Samples}
ConcValues == {None} \cup {Str(s) : s \in TextsOver(ConcAlphabet, ConcMaxLen)}

Threads == 1..NumThreads
SeqThreads == {1}

\* What a call hands back: a returned text or a raised exception.
Pending == [kind |-> "pending", exc |-> "", value |-> <<>>]
Returned(s) == [kind |-> "return", exc |-> "", value |-> s]
Raised(e) == [kind |-> "raise", exc |-> e, value |-> <<>>]

NoObservation == [arg |-> Unbound, outcome |-> Pending]

-----------------------------------------------------------------------------
(* The expressions of greet *)

\* Variants of the truth test: `name is not None`, and `name.strip()`.
TruthyNotNone(v) == v.type # "NoneType"

RECURSIVE LStrip(_)
LStrip(s) == IF s # <<>> /\ Head(s) = " " THEN LStrip(Tail(s)) ELSE s

TruthyStripped(v) == v.type = "str" /\ Len(LStrip(v.chars)) > 0

\* bool(name): None and the empty str are falsy, every other str is truthy.
Truthy(v) == v.type = "str" /\ Len(v.chars) > 0

\* Variant of the condition: `name == ""`.
NotNameEqEmpty(v) == v = Str(<<>>)

\* `not name`, the condition of line 13.
NotName(v) == ~Truthy(v)

\* Variant of the formatting: the name lower-cased.
Lower(c) == IF c = "A" THEN "a" ELSE c

FormatValueLower(v) ==
    IF v.type = "str"
    THEN [i \in 1..Len(v.chars) |-> Lower(v.chars[i])]
    ELSE <<"n", "o", "n", "e">>

\* format(name, ""): a str formats as itself, None as the text "None".
FormatValue(v) ==
    IF v.type = "str" THEN v.chars ELSE <<"N", "o", "n", "e">>

\* Variant of the prefix literal: the comma left out.
HelloLitNoComma == <<"H", "e", "l", "l", "o", " ">>

\* The literal parts of the f-string of line 15.
HelloLit == <<"H", "e", "l", "l", "o", ",", " ">>
BangLit == <<"!">>

\* BUILD_STRING: the parts of an f-string joined left to right.
RECURSIVE JoinParts(_)
JoinParts(parts) ==
    IF parts = <<>> THEN <<>> ELSE Head(parts) \o JoinParts(Tail(parts))

\* Variant of line 15's string: the f prefix left out, so nothing is substituted.
FStringPlain(v) ==
    <<"H", "e", "l", "l", "o", ",", " ", "{", "n", "a", "m", "e", "}", "!">>

\* f"Hello, {name}!"
FString(v) == JoinParts(<<HelloLit, FormatValue(v), BangLit>>)

\* greet run from call to completion with nothing else running.
GreetAlone(v) ==
    IF NotName(v) THEN Raised("ValueError") ELSE Returned(FString(v))

-----------------------------------------------------------------------------
(* The steps of a call *)

Init ==
    /\ pc = [t \in Threads |-> "idle"]
    /\ arg = [t \in Threads |-> Unbound]
    /\ name = [t \in Threads |-> Unbound]
    /\ outcome = [t \in Threads |-> Pending]
    /\ moduleState = <<>>
    /\ observed = NoObservation

\* Variant of the binding: `name` kept in one place shared by all calls.
CallShared(t, v) ==
    /\ pc[t] = "idle"
    /\ arg' = [arg EXCEPT ![t] = v]
    /\ name' = [u \in Threads |-> v]
    /\ pc' = [pc EXCEPT ![t] = "line13"]
    /\ UNCHANGED <<outcome, moduleState, observed>>

\* The caller evaluates greet(v): a frame is made and v bound to `name`.
Call(t, v) ==
    /\ pc[t] = "idle"
    /\ arg' = [arg EXCEPT ![t] = v]
    /\ name' = [name EXCEPT ![t] = v]
    /\ pc' = [pc EXCEPT ![t] = "line13"]
    /\ UNCHANGED <<outcome, moduleState, observed>>

\* Variant of line 13: the guard left out.
Line13NoGuard(t) ==
    /\ pc[t] = "line13"
    /\ pc' = [pc EXCEPT ![t] = "line15"]
    /\ UNCHANGED <<arg, name, outcome, moduleState, observed>>

\* if not name:
Line13(t) ==
    /\ pc[t] = "line13"
    /\ pc' = [pc EXCEPT ![t] = IF NotName(name[t]) THEN "line14" ELSE "line15"]
    /\ UNCHANGED <<arg, name, outcome, moduleState, observed>>

\* Variant of line 14: a default name substituted instead of raising.
Line14Fallback(t) ==
    /\ pc[t] = "line14"
    /\ name' = [name EXCEPT ![t] = Str(World)]
    /\ pc' = [pc EXCEPT ![t] = "line15"]
    /\ UNCHANGED <<arg, outcome, moduleState, observed>>

\* raise ValueError("name must not be empty"): the frame is left and the
\* exception reaches the caller.
Line14(t) ==
    /\ pc[t] = "line14"
    /\ outcome' = [outcome EXCEPT ![t] = Raised("ValueError")]
    /\ name' = [name EXCEPT ![t] = Unbound]
    /\ pc' = [pc EXCEPT ![t] = "done"]
    /\ UNCHANGED <<arg, moduleState, observed>>

\* Variant of line 15: the name of the previous call kept at module level
\* and greeted instead of this call's.
Line15Stale(t) ==
    /\ pc[t] = "line15"
    /\ outcome' = [outcome EXCEPT ![t] =
           Returned(FString(IF moduleState = <<>> THEN name[t] ELSE moduleState[1]))]
    /\ moduleState' = <<name[t]>>
    /\ name' = [name EXCEPT ![t] = Unbound]
    /\ pc' = [pc EXCEPT ![t] = "done"]
    /\ UNCHANGED <<arg, observed>>

\* return f"Hello, {name}!"
Line15(t) ==
    /\ pc[t] = "line15"
    /\ outcome' = [outcome EXCEPT ![t] = Returned(FString(name[t]))]
    /\ name' = [name EXCEPT ![t] = Unbound]
    /\ pc' = [pc EXCEPT ![t] = "done"]
    /\ UNCHANGED <<arg, moduleState, observed>>

\* The caller is done with the outcome and drops it.
Resume(t) ==
    /\ pc[t] = "done"
    /\ pc' = [pc EXCEPT ![t] = "idle"]
    /\ arg' = [arg EXCEPT ![t] = Unbound]
    /\ outcome' = [outcome EXCEPT ![t] = Pending]
    /\ UNCHANGED <<name, moduleState, observed>>

\* The caller keeps the argument and the outcome to compare a later call with.
Remember(t) ==
    /\ pc[t] = "done"
    /\ observed' = [arg |-> arg[t], outcome |-> outcome[t]]
    /\ pc' = [pc EXCEPT ![t] = "idle"]
    /\ arg' = [arg EXCEPT ![t] = Unbound]
    /\ outcome' = [outcome EXCEPT ![t] = Pending]
    /\ UNCHANGED <<name, moduleState>>

\* One caller, calls one after another.
Next ==
    \E t \in SeqThreads :
        \/ \E v \in SeqValues : Call(t, v)
        \/ Line13(t)
        \/ Line14(t)
        \/ Line15(t)
        \/ Resume(t)
        \/ Remember(t)

Spec == Init /\ [][Next]_vars

\* Several threads, each calling greet, their steps interleaved.
ConcNext ==
    \E t \in Threads :
        \/ \E v \in ConcValues : Call(t, v)
        \/ Line13(t)
        \/ Line14(t)
        \/ Line15(t)
        \/ Resume(t)

ConcSpec == Init /\ [][ConcNext]_vars

-----------------------------------------------------------------------------
(* Properties *)

\* The greeting's parts as the specification writes them.
SpecPrefix == <<"H", "e", "l", "l", "o", ",", " ">>
SpecSuffix == <<"!">>

Done(t) == pc[t] = "done"
ValidName(v) == v.type = "str" /\ v.chars # <<>>
InFlight(t) == pc[t] \in {"line13", "line14", "line15"}

\* C1: a completed call whose argument is a non-empty text n has returned
\* exactly "Hello, " + n + "!"; greet("World") is "Hello, World!" and
\* greet("Alice") is "Hello, Alice!".
C1_GreetingIsConcatenation ==
    \A t \in Threads :
        Done(t) /\ ValidName(arg[t]) =>
            /\ outcome[t] = Returned(SpecPrefix \o arg[t].chars \o SpecSuffix)
            /\ arg[t] = Str(World) =>
                 outcome[t].value =
                   <<"H", "e", "l", "l", "o", ",", " ", "W", "o", "r", "l", "d", "!">>
            /\ arg[t] = Str(Alice) =>
                 outcome[t].value =
                   <<"H", "e", "l", "l", "o", ",", " ", "A", "l", "i", "c", "e", "!">>

C1_Witness ==
    /\ Done(1)
    /\ arg[1] = Str(Alice)
    /\ outcome[1].kind = "return"
    /\ Len(outcome[1].value) = 13

\* C2: a completed call with a text argument has raised ValueError if and
\* only if the text is empty; the empty text never yields a greeting and a
\* non-empty text never yields an error.
C2_ErrorIffEmpty ==
    \A t \in Threads :
        Done(t) /\ arg[t].type = "str" =>
            /\ outcome[t].kind \in {"return", "raise"}
            /\ outcome[t].kind = "raise" <=> arg[t].chars = <<>>
            /\ outcome[t].kind = "raise" => outcome[t] = Raised("ValueError")

C2_Witness ==
    /\ Done(1)
    /\ arg[1] = Str(<<>>)
    /\ outcome[1] = Raised("ValueError")

\* C3: a completed call whose argument is None has raised ValueError, the
\* error of the empty text: it has returned no greeting and raised nothing else.
C3_NoneIsRejected ==
    \A t \in Threads :
        Done(t) /\ arg[t] = None =>
            /\ outcome[t].kind = "raise"
            /\ outcome[t].exc = "ValueError"
            /\ outcome[t].value = <<>>

C3_Witness ==
    /\ Done(1)
    /\ arg[1] = None
    /\ outcome[1].kind = "raise"

\* C4: a completed call has the outcome that an earlier call with the same
\* argument had, whatever calls were made in between.
C4_Deterministic ==
    \A t \in Threads :
        Done(t) /\ observed # NoObservation /\ observed.arg = arg[t] =>
            outcome[t] = observed.outcome

C4_Witness ==
    /\ Done(1)
    /\ observed.arg = Str(World)
    /\ arg[1] = Str(World)
    /\ outcome[1].kind = "return"

\* C5: with the threads' calls interleaved, a call in flight still holds the
\* name its caller passed, and a completed call has the outcome the same
\* call has when run alone.
C5_Isolated ==
    \A t \in Threads :
        /\ InFlight(t) => name[t] = arg[t]
        /\ Done(t) => outcome[t] = GreetAlone(arg[t])

C5_Witness ==
    /\ Done(1)
    /\ outcome[1].kind = "return"
    /\ InFlight(2)
    /\ name[2] # arg[1]

\* C6: the greeting returned for a valid name starts with "Hello, " and
\* ends with "!".
C6_PrefixAndSuffix ==
    \A t \in Threads :
        Done(t) /\ ValidName(arg[t]) =>
            LET g == outcome[t].value IN
            /\ outcome[t].kind = "return"
            /\ Len(g) > Len(SpecPrefix)
            /\ SubSeq(g, 1, Len(SpecPrefix)) = SpecPrefix
            /\ SubSeq(g, Len(g), Len(g)) = SpecSuffix

C6_Witness ==
    /\ Done(1)
    /\ arg[1] = Str(<<"a">>)
    /\ outcome[1].kind = "return"

\* C7: a name of whitespace only, or with whitespace around it, mixed case,
\* "!" or ",", counts as non-empty and stands character for character
\* between the prefix and the suffix.
HasSpecial(s) == \E i \in 1..Len(s) : s[i] \in {" ", "A", "!", ","}

C7_Verbatim ==
    \A t \in Threads :
        Done(t) /\ arg[t].type = "str" /\ HasSpecial(arg[t].chars) =>
            LET n == arg[t].chars
                g == outcome[t].value IN
            /\ outcome[t].kind = "return"
            /\ Len(g) = Len(SpecPrefix) + Len(n) + Len(SpecSuffix)
            /\ \A i \in 1..Len(n) : g[Len(SpecPrefix) + i] = n[i]

C7_Witness ==
    /\ Done(1)
    /\ arg[1] = Str(<<" ", " ">>)
    /\ outcome[1].value = <<"H", "e", "l", "l", "o", ",", " ", " ", " ", "!">>

\* C8: a step of a call in flight leaves the caller's argument, the module
\* state and what the caller kept of earlier calls as they were, and the
\* step at the raise hands ValueError to the caller at once.
C8_FrameStep ==
    \A t \in Threads :
        InFlight(t) =>
            /\ arg'[t] = arg[t]
            /\ moduleState' = moduleState
            /\ observed' = observed
            /\ pc[t] # "line13" \/ outcome'[t] = outcome[t]
            /\ pc[t] = "line14" =>
                 pc'[t] = "done" /\ outcome'[t] = Raised("ValueError")
            /\ pc[t] = "line15" =>
                 pc'[t] = "done" /\ outcome'[t].kind = "return"

C8_Frame == [][C8_FrameStep]_vars

C8_Witness ==
    /\ Done(1)
    /\ arg[1] = Str(<<>>)
    /\ outcome[1].kind = "raise"
    /\ observed.outcome.kind = "return"
    /\ moduleState = <<>>

\* C9: the name is what is left of the greeting without its first 7 and its
\* last character, and two calls that returned the same greeting were given
\* the same name.
StripGreeting(g) == SubSeq(g, 8, Len(g) - 1)

C9_Invertible ==
    \A t \in Threads :
        Done(t) /\ outcome[t].kind = "return" =>
            /\ StripGreeting(outcome[t].value) = arg[t].chars
            /\ observed.outcome = outcome[t] => observed.arg = arg[t]

C9_Witness ==
    /\ Done(1)
    /\ arg[1] = Str(<<"H", "e", "l", "l", "o", ",", " ", "!">>)
    /\ outcome[1].kind = "return"
    /\ observed.arg = Str(<<"H", "e", "l", "l", "o", ",", " ">>)
    /\ observed.outcome.kind = "return"

\* C10: a returned greeting is 8 characters longer than the name, so at
\* least 9 long, and is never the bare "Hello, !".
C10_Length ==
    \A t \in Threads :
        Done(t) /\ outcome[t].kind = "return" =>
            /\ Len(outcome[t].value) = Len(arg[t].chars) + 8
            /\ Len(outcome[t].value) >= 9
            /\ outcome[t].value # <<"H", "e", "l", "l", "o", ",", " ", "!">>

C10_Witness ==
    /\ Done(1)
    /\ outcome[1].kind = "return"
    /\ Len(arg[1].chars) = 1
    /\ Len(outcome[1].value) = 9

====
